---- MODULE Spec2Model ----
(***************************************************************************)
(* The Grounding game master (games/grounding/master.py) with its two      *)
(* Speaker players (games/grounding/players.py), as a state machine.       *)
(*                                                                         *)
(* One episode: the harness constructs a Grounding object, calls setup()   *)
(* with the parameters of one game instance and then play().  play() is    *)
(* sequential; pc is its position.  Every backend invocation               *)
(* (self.player_x(...)) either returns a reply or raises; a raised         *)
(* exception is not caught anywhere in master.py, so it leaves play().     *)
(***************************************************************************)
EXTENDS Integers, Sequences, FiniteSets, TLC

\* Largest turn budget handed to setup().
MaxTurns == 3

VARIABLES
    pc,               \* position of the harness / of play()
    n_turns,          \* self.n_turns
    current_turn,     \* self.current_turn
    complete_turns,   \* self.complete_turns
    request_counts,   \* self.request_counts, a Python list: index 0 .. len-1
    historyA,         \* self.player_a.history
    historyB,         \* self.player_b.history
    events,           \* the events recorded by log_event, in order
    log_current_turn, \* the recorder's turn index, advanced by log_next_turn
    eval_keys,        \* the keys written by log_key
    players,          \* the player descriptions written by log_players
    last_request,     \* arguments of the most recent backend invocation
    backend_calls,    \* backend invocations made while current_turn = i, by kind
    answer,           \* the local answer_a / answer_b of turn()
    failed_at,        \* position at which a backend invocation raised, or "none"
    twin              \* a second episode of the same instance, as one record

vars == <<pc, n_turns, current_turn, complete_turns, request_counts, historyA,
          historyB, events, log_current_turn, eval_keys, players, last_request,
          backend_calls, answer, failed_at>>

\* The episode together with the second episode run beside it.
pair == <<vars, twin>>

----------------------------------------------------------------------------
(* Instance parameters: what the instance generator puts into an instance. *)

\* The turn budgets setup() may be called with; setup() takes any int.
TurnBudgets == (0 - 1) .. MaxTurns

prompt_player_a == "initial_prompt_a"
prompt_player_b == "initial_prompt_b"
entity1_info == <<"capital of France">>
entity2_info == <<"capital of Germany">>

----------------------------------------------------------------------------
(* players.py                                                              *)

\* f"{turn_idx}" for the two kinds of value master.py passes as turn_idx:
\* the int self.current_turn, and (in probe) the bound method self.turn.
TurnMethod == "<bound method Grounding.turn>"

\* Speaker._custom_response: fails is the outcome of random.random() < prob_fail,
\* i and j are the picks of random.choice.
_custom_response(player, turn_idx, fails, i, j) ==
    IF fails
    THEN "from " \o player \o ", turn " \o turn_idx \o ": FAILED."
    ELSE "from " \o player \o ", turn " \o turn_idx \o ": "
             \o entity1_info[i] \o ", " \o entity2_info[j] \o "."

\* Every reply a player can give for a turn index.
Replies(player, turn_idx) ==
    { _custom_response(player, turn_idx, f, i, j) :
        f \in BOOLEAN, i \in 1..Len(entity1_info), j \in 1..Len(entity2_info) }

----------------------------------------------------------------------------
(* The recorder of the GameMaster base class.                              *)

\* An event as stored: the turn of the log it was recorded in, the two actors
\* and the action {'type': ..., 'content': ...}.
Event(turn, from, to, type, content) ==
    [turn |-> turn, from |-> from, to |-> to, type |-> type, content |-> content]

\* log_event: append one event to the current turn of the log.
log_event(log, turn, from, to, type, content) ==
    Append(log, Event(turn, from, to, type, content))

\* log_key: interactions[key] = value.
log_key(keys, key, value) ==
    [k \in (DOMAIN keys) \cup {key} |-> IF k = key THEN value ELSE keys[k]]

----------------------------------------------------------------------------
(* master.py: helpers                                                      *)

Message(role, content) == [role |-> role, content |-> content]

\* _append_utterance with the role argument dropped: every message is "user".
_append_utterance_any_role(hA, hB, utterance, player, role) ==
    IF player = "a"
    THEN <<Append(hA, Message("user", utterance)), hB>>
    ELSE <<hA, Append(hB, Message("user", utterance))>>

\* Grounding._append_utterance: the pair of histories after the append.
_append_utterance(hA, hB, utterance, player, role) ==
    IF player = "a"
    THEN <<Append(hA, Message(role, utterance)), hB>>
    ELSE <<hA, Append(hB, Message(role, utterance))>>

\* proceed stopping one turn early.
proceed_one_short == current_turn + 1 < n_turns

\* proceed letting one more turn start.
proceed_one_more == current_turn <= n_turns

\* proceed with an exit on content: the loop also ends after a "FAILED." reply
\* of player B.
proceed_unless_failed ==
    /\ current_turn < n_turns
    /\ answer # _custom_response("B", ToString(current_turn), TRUE, 1, 1)

\* Grounding.proceed
proceed == current_turn < n_turns

question ==
    "What do you believe to be shared knowledge between you and your conversation partner?"

\* probe without the .copy(): the question is appended to the player's own list.
probe_extend_alias(history) ==
    LET extended == Append(history, Message("user", ""))
        asked    == [extended EXCEPT ![Len(extended)].content = question]
    IN  [history |-> asked, probe_history |-> asked]

\* probe, lines 66-68 / 76-78: history.copy() is a new list, so the append
\* reaches only the copy, and the dict whose content is then assigned is the
\* one just appended.  history is the player's list afterwards, probe_history
\* the list handed to the backend.
probe_extend(history) ==
    LET copied   == history
        extended == Append(copied, Message("user", ""))
    IN  [history       |-> history,
         probe_history |-> [extended EXCEPT ![Len(extended)].content = question]]

\* The increment landing one index low (turn t counted at index t - 1).
count_request_low(counts, turn) == [counts EXCEPT ![turn - 1] = @ + 1]

\* request_counts[self.current_turn] += 1
count_request(counts, turn) == [counts EXCEPT ![turn] = @ + 1]

\* One more invocation of a kind ("turn" or "probe") while current_turn = turn.
count_call(calls, turn, kind) == [calls EXCEPT ![turn][kind] = @ + 1]

NoRequest == [player |-> "none", messages |-> <<>>, turn_idx |-> "", kind |-> "none"]

Request(player, messages, turn_idx, kind) ==
    [player |-> player, messages |-> messages, turn_idx |-> turn_idx, kind |-> kind]

----------------------------------------------------------------------------
(* Grounding.__init__: the state after construction.  Attributes that only *)
(* setup() assigns hold a placeholder until then.                          *)

\* The second Grounding object, as constructed.
TwinInit ==
    [pc |-> "constructed", complete_turns |-> 0, n_turns |-> 0,
     current_turn |-> 0, request_counts |-> <<>>, historyA |-> <<>>,
     historyB |-> <<>>, events |-> <<>>, log_current_turn |-> 0 - 1,
     eval_keys |-> <<>>, answer |-> "", failed_at |-> "none"]

Init ==
    /\ pc = "constructed"
    /\ complete_turns = 0
    /\ n_turns = 0
    /\ current_turn = 0
    /\ request_counts = <<>>
    /\ historyA = <<>>
    /\ historyB = <<>>
    /\ events = <<>>
    /\ log_current_turn = 0 - 1
    /\ eval_keys = <<>>
    /\ players = <<>>
    /\ last_request = NoRequest
    /\ backend_calls = <<>>
    /\ answer = ""
    /\ failed_at = "none"
    /\ twin = TwinInit

----------------------------------------------------------------------------
(* Grounding.setup, with Grounding.initiate inlined where setup calls it.  *)

\* [0] * length
ListOfZeros(length) == [i \in 0 .. (length - 1) |-> 0]

\* initiate with the two prompts handed to the wrong players.
initiate_swapped(prompt_a, prompt_b) ==
    LET turn == log_current_turn + 1
        hA   == Append(historyA, Message("user", prompt_b))
        hB   == Append(historyB, Message("user", prompt_a))
        e1   == log_event(events, turn, "GM", "Player 1", "send message", prompt_b)
        e2   == log_event(e1, turn, "GM", "Player 2", "send message", prompt_a)
    IN  [historyA |-> hA, historyB |-> hB, events |-> e2, log_current_turn |-> turn]

\* Grounding.initiate: the histories and the log after it.
initiate(prompt_a, prompt_b) ==
    LET turn == log_current_turn + 1
        hA   == Append(historyA, Message("user", prompt_a))
        hB   == Append(historyB, Message("user", prompt_b))
        e1   == log_event(events, turn, "GM", "Player 1", "send message", prompt_a)
        e2   == log_event(e1, turn, "GM", "Player 2", "send message", prompt_b)
    IN  [historyA |-> hA, historyB |-> hB, events |-> e2, log_current_turn |-> turn]

Setup ==
    /\ pc = "constructed"
    /\ \E n \in TurnBudgets :
         /\ n_turns' = n
         /\ request_counts' = ListOfZeros(n + 1)
         /\ backend_calls' = [i \in 0 .. n |-> [turn |-> 0, probe |-> 0]]
         /\ eval_keys' = log_key(eval_keys, "n_turns", n)
    /\ current_turn' = 0
    /\ LET i == initiate(prompt_player_a, prompt_player_b)
       IN  /\ historyA' = i.historyA
           /\ historyB' = i.historyB
           /\ events' = i.events
           /\ log_current_turn' = i.log_current_turn
    /\ players' = [p \in {"GM", "Player 1", "Player 2"} |->
                     CASE p = "GM" -> "Game master for Grounding"
                       [] p = "Player 1" -> "Player A: model_a"
                       [] p = "Player 2" -> "Player B: model_b"]
    /\ pc' = "play"
    /\ UNCHANGED <<complete_turns, last_request, answer, failed_at>>

----------------------------------------------------------------------------
(* Grounding.play: the head of the while loop.                             *)

Play_NextTurn ==
    /\ pc = "play"
    /\ proceed
    /\ current_turn' = current_turn + 1
    /\ log_current_turn' = log_current_turn + 1
    /\ pc' = "turn_get_a"
    /\ UNCHANGED <<n_turns, complete_turns, request_counts, historyA, historyB,
                   events, eval_keys, players, last_request, backend_calls,
                   answer, failed_at>>

----------------------------------------------------------------------------
(* Grounding.turn, one action per statement group, and _get_utterance.     *)

\* The backend invocation self.player_x(messages, turn_idx) raised: nothing in
\* master.py catches it, so play() is left at once.
Raise(request) ==
    /\ pc' = "aborted"
    /\ failed_at' = pc
    /\ last_request' = request
    /\ backend_calls' = count_call(backend_calls, current_turn, request.kind)

\* _get_utterance dropping the log when the backend raises.
_get_utterance_truncating(player, tag, actor, next_pc) ==
    LET history == IF player = "a" THEN historyA ELSE historyB
        request == Request(player, history, ToString(current_turn), "turn")
    IN  \/ \E reply \in Replies(tag, ToString(current_turn)) :
             LET h == _append_utterance(historyA, historyB, reply, player, "assistant")
             IN  /\ answer' = reply
                 /\ historyA' = h[1]
                 /\ historyB' = h[2]
                 /\ events' = log_event(events, log_current_turn, actor, "GM",
                                         "get message", reply)
                 /\ request_counts' = count_request(request_counts, current_turn)
                 /\ last_request' = request
                 /\ backend_calls' = count_call(backend_calls, current_turn, "turn")
                 /\ pc' = next_pc
                 /\ UNCHANGED <<n_turns, current_turn, complete_turns,
                                log_current_turn, eval_keys, players, failed_at>>
        \/ /\ Raise(request)
           /\ events' = <<>>
           /\ UNCHANGED <<n_turns, current_turn, complete_turns, request_counts,
                          historyA, historyB, log_current_turn, eval_keys,
                          players, answer>>

\* _get_utterance showing every player the history of player A.
_get_utterance_view_of_a(player, tag, actor, next_pc) ==
    LET request == Request(player, historyA, ToString(current_turn), "turn")
    IN  \/ \E reply \in Replies(tag, ToString(current_turn)) :
             LET h == _append_utterance(historyA, historyB, reply, player, "assistant")
             IN  /\ answer' = reply
                 /\ historyA' = h[1]
                 /\ historyB' = h[2]
                 /\ events' = log_event(events, log_current_turn, actor, "GM",
                                         "get message", reply)
                 /\ request_counts' = count_request(request_counts, current_turn)
                 /\ last_request' = request
                 /\ backend_calls' = count_call(backend_calls, current_turn, "turn")
                 /\ pc' = next_pc
                 /\ UNCHANGED <<n_turns, current_turn, complete_turns,
                                log_current_turn, eval_keys, players, failed_at>>
        \/ /\ Raise(request)
           /\ UNCHANGED <<n_turns, current_turn, complete_turns, request_counts,
                          historyA, historyB, events, log_current_turn, eval_keys,
                          players, answer>>

\* Grounding._get_utterance(player)
_get_utterance(player, tag, actor, next_pc) ==
    LET history == IF player = "a" THEN historyA ELSE historyB
        request == Request(player, history, ToString(current_turn), "turn")
    IN  \/ \E reply \in Replies(tag, ToString(current_turn)) :
             LET h == _append_utterance(historyA, historyB, reply, player, "assistant")
             IN  /\ answer' = reply
                 /\ historyA' = h[1]
                 /\ historyB' = h[2]
                 /\ events' = log_event(events, log_current_turn, actor, "GM",
                                         "get message", reply)
                 /\ request_counts' = count_request(request_counts, current_turn)
                 /\ last_request' = request
                 /\ backend_calls' = count_call(backend_calls, current_turn, "turn")
                 /\ pc' = next_pc
                 /\ UNCHANGED <<n_turns, current_turn, complete_turns,
                                log_current_turn, eval_keys, players, failed_at>>
        \/ /\ Raise(request)
           /\ UNCHANGED <<n_turns, current_turn, complete_turns, request_counts,
                          historyA, historyB, events, log_current_turn, eval_keys,
                          players, answer>>

\* The relay landing in the history of the player who gave the answer.
relay_to_self(player, actor, next_pc) ==
    LET self == IF player = "a" THEN "b" ELSE "a"
        h    == _append_utterance(historyA, historyB, answer, self, "user")
    IN  /\ historyA' = h[1]
        /\ historyB' = h[2]
        /\ events' = log_event(events, log_current_turn, "GM", actor,
                                "send message", answer)
        /\ pc' = next_pc
        /\ UNCHANGED <<n_turns, current_turn, complete_turns, request_counts,
                       log_current_turn, eval_keys, players, last_request,
                       backend_calls, answer, failed_at>>

\* The relay putting a changed text into the other player's history.
relay_tagged(player, actor, next_pc) ==
    LET h == _append_utterance(historyA, historyB, "relayed: " \o answer,
                               player, "user")
    IN  /\ historyA' = h[1]
        /\ historyB' = h[2]
        /\ events' = log_event(events, log_current_turn, "GM", actor,
                                "send message", answer)
        /\ pc' = next_pc
        /\ UNCHANGED <<n_turns, current_turn, complete_turns, request_counts,
                       log_current_turn, eval_keys, players, last_request,
                       backend_calls, answer, failed_at>>

\* turn, lines 161-164 and 171-174: relay the answer to the other player.
relay(player, actor, next_pc) ==
    LET h == _append_utterance(historyA, historyB, answer, player, "user")
    IN  /\ historyA' = h[1]
        /\ historyB' = h[2]
        /\ events' = log_event(events, log_current_turn, "GM", actor,
                                "send message", answer)
        /\ pc' = next_pc
        /\ UNCHANGED <<n_turns, current_turn, complete_turns, request_counts,
                       log_current_turn, eval_keys, players, last_request,
                       backend_calls, answer, failed_at>>

\* Player B asked before A's reply has been relayed to it.
Turn_GetA_then_B ==
    /\ pc = "turn_get_a"
    /\ _get_utterance("a", "A", "Player 1", "turn_get_b")

Turn_GetA ==
    /\ pc = "turn_get_a"
    /\ _get_utterance("a", "A", "Player 1", "turn_relay_a")

Turn_RelayA ==
    /\ pc = "turn_relay_a"
    /\ relay("b", "Player 2", "turn_get_b")

Turn_GetB ==
    /\ pc = "turn_get_b"
    /\ _get_utterance("b", "B", "Player 2", "turn_relay_b")

Turn_RelayB ==
    /\ pc = "turn_relay_b"
    /\ relay("a", "Player 1", "turn_complete")

Turn_Complete ==
    /\ pc = "turn_complete"
    /\ complete_turns' = complete_turns + 1
    /\ pc' = "probe_a"
    /\ UNCHANGED <<n_turns, current_turn, request_counts, historyA, historyB,
                   events, log_current_turn, eval_keys, players, last_request,
                   backend_calls, answer, failed_at>>

----------------------------------------------------------------------------
(* Grounding.probe: lines 65-74 for player A, lines 76-84 for player B.     *)

\* A probe that counts its backend invocation in request_counts.
probe_player_counted(player, tag, actor, history, hist, next_pc) ==
    LET p       == probe_extend(history)
        request == Request(player, p.probe_history, TurnMethod, "probe")
        asked   == log_event(events, log_current_turn, "GM", actor,
                             "probe question", question)
    IN  /\ hist = p.history
        /\ \/ \E reply \in Replies(tag, TurnMethod) :
                /\ events' = log_event(asked, log_current_turn, "GM", "GM",
                                        "probe response", reply)
                /\ last_request' = request
                /\ backend_calls' = count_call(backend_calls, current_turn, "probe")
                /\ request_counts' = count_request(request_counts, current_turn)
                /\ pc' = next_pc
                /\ UNCHANGED failed_at
           \/ /\ Raise(request)
              /\ events' = asked
              /\ UNCHANGED request_counts
        /\ UNCHANGED <<n_turns, current_turn, complete_turns,
                       log_current_turn, eval_keys, players, answer>>

\* One half of probe: the question is logged, then the backend is asked with
\* the extended copy, then the answer is logged.  hist is the history of the
\* probed player after the half has run.
probe_player(player, tag, actor, history, hist, next_pc) ==
    LET p       == probe_extend(history)
        request == Request(player, p.probe_history, TurnMethod, "probe")
        asked   == log_event(events, log_current_turn, "GM", actor,
                             "probe question", question)
    IN  /\ hist = p.history
        /\ \/ \E reply \in Replies(tag, TurnMethod) :
                /\ events' = log_event(asked, log_current_turn, "GM", "GM",
                                        "probe response", reply)
                /\ last_request' = request
                /\ backend_calls' = count_call(backend_calls, current_turn, "probe")
                /\ pc' = next_pc
                /\ UNCHANGED failed_at
           \/ /\ Raise(request)
              /\ events' = asked
        /\ UNCHANGED <<n_turns, current_turn, complete_turns, request_counts,
                       log_current_turn, eval_keys, players, answer>>

Probe_A ==
    /\ pc = "probe_a"
    /\ probe_player("a", "A", "Player 1", historyA, historyA', "probe_b")
    /\ UNCHANGED historyB

Probe_B ==
    /\ pc = "probe_b"
    /\ probe_player("b", "B", "Player 2", historyB, historyB', "play")
    /\ UNCHANGED historyA

----------------------------------------------------------------------------
(* Grounding.play, lines 96-105: the tail after the loop.                   *)

\* Grounding.log_eval_assets
log_eval_assets(keys) == log_key(keys, "Played turns", current_turn)

\* The success test as "at least n_turns completed turns".
final_events_at_least(log) ==
    LET e1 == IF complete_turns >= n_turns
              THEN log_event(log, log_current_turn, "GM", "GM", "info",
                             "game successful")
              ELSE log
    IN  log_event(e1, log_current_turn, "GM", "GM", "info", "end game")

\* The two info events in the other order.
final_events_end_first(log) ==
    LET e1 == log_event(log, log_current_turn, "GM", "GM", "info", "end game")
    IN  IF complete_turns = n_turns
        THEN log_event(e1, log_current_turn, "GM", "GM", "info", "game successful")
        ELSE e1

\* lines 96-103: the two info events.
final_events(log) ==
    LET e1 == IF complete_turns = n_turns
              THEN log_event(log, log_current_turn, "GM", "GM", "info",
                             "game successful")
              ELSE log
    IN  log_event(e1, log_current_turn, "GM", "GM", "info", "end game")

Play_Finalize ==
    /\ pc = "play"
    /\ ~proceed
    /\ events' = final_events(events)
    /\ eval_keys' = log_eval_assets(eval_keys)
    /\ pc' = "done"
    /\ UNCHANGED <<n_turns, current_turn, complete_turns, request_counts,
                   historyA, historyB, log_current_turn, players, last_request,
                   backend_calls, answer, failed_at>>

----------------------------------------------------------------------------

\* One episode; the second object stays as constructed.
Next ==
    \/ Setup /\ UNCHANGED twin
    \/ Play_NextTurn /\ UNCHANGED twin
    \/ Turn_GetA /\ UNCHANGED twin
    \/ Turn_RelayA /\ UNCHANGED twin
    \/ Turn_GetB /\ UNCHANGED twin
    \/ Turn_RelayB /\ UNCHANGED twin
    \/ Turn_Complete /\ UNCHANGED twin
    \/ Probe_A /\ UNCHANGED twin
    \/ Probe_B /\ UNCHANGED twin
    \/ Play_Finalize /\ UNCHANGED twin

Spec == Init /\ [][Next]_pair

\* play() is sequential Python: as long as a statement is left to run, it runs.
FairSpec == Spec /\ WF_pair(Next)

----------------------------------------------------------------------------
(* A second episode, run beside the first on the same instance and with the *)
(* same replies to the requests for turn replies, and with probe answers of *)
(* its own.  It is the same program: each step below is the statement group *)
(* of master.py that the action of the same name models, as a function on  *)
(* the record of the second Grounding object's attributes.                  *)

\* Grounding.setup with Grounding.initiate
twin_setup(t, n) ==
    LET turn == t.log_current_turn + 1
        e1   == log_event(t.events, turn, "GM", "Player 1", "send message",
                          prompt_player_a)
        e2   == log_event(e1, turn, "GM", "Player 2", "send message",
                          prompt_player_b)
    IN  [t EXCEPT !.n_turns = n,
                  !.current_turn = 0,
                  !.request_counts = ListOfZeros(n + 1),
                  !.log_current_turn = turn,
                  !.historyA = Append(@, Message("user", prompt_player_a)),
                  !.historyB = Append(@, Message("user", prompt_player_b)),
                  !.events = e2,
                  !.eval_keys = log_key(@, "n_turns", n),
                  !.pc = "play"]

\* Grounding.proceed
twin_proceed(t) == t.current_turn < t.n_turns

\* Grounding.play: the head of the while loop.
twin_next_turn(t) ==
    [t EXCEPT !.current_turn = @ + 1,
              !.log_current_turn = @ + 1,
              !.pc = "turn_get_a"]

\* A backend invocation raised.
twin_raise(t) == [t EXCEPT !.pc = "aborted", !.failed_at = t.pc]

\* Grounding._get_utterance(player), the backend having answered reply.
twin_get_utterance(t, player, actor, reply, next_pc) ==
    LET h == _append_utterance(t.historyA, t.historyB, reply, player, "assistant")
    IN  [t EXCEPT !.answer = reply,
                  !.historyA = h[1],
                  !.historyB = h[2],
                  !.events = log_event(@, t.log_current_turn, actor, "GM",
                                       "get message", reply),
                  !.request_counts = count_request(@, t.current_turn),
                  !.pc = next_pc]

\* Grounding.turn: relay of the answer to the other player.
twin_relay(t, player, actor, next_pc) ==
    LET h == _append_utterance(t.historyA, t.historyB, t.answer, player, "user")
    IN  [t EXCEPT !.historyA = h[1],
                  !.historyB = h[2],
                  !.events = log_event(@, t.log_current_turn, "GM", actor,
                                       "send message", t.answer),
                  !.pc = next_pc]

\* Grounding.turn: self.complete_turns += 1
twin_complete(t) == [t EXCEPT !.complete_turns = @ + 1, !.pc = "probe_a"]

\* One half of a probe that keeps the answer in the probed player's history,
\* as the discarded draft in turn() did.
twin_probe_persisting(t, player, actor, reply, raised, next_pc) ==
    LET asked == log_event(t.events, t.log_current_turn, "GM", actor,
                           "probe question", question)
        h     == _append_utterance(t.historyA, t.historyB, reply, player,
                                   "assistant")
    IN  IF raised
        THEN [twin_raise(t) EXCEPT !.events = asked]
        ELSE [t EXCEPT !.historyA = h[1],
                       !.historyB = h[2],
                       !.events = log_event(asked, t.log_current_turn, "GM", "GM",
                                            "probe response", reply),
                       !.pc = next_pc]

\* Grounding.probe, one half: the backend answered reply, or raised.
twin_probe(t, player, actor, reply, raised, next_pc) ==
    LET history == IF player = "a" THEN t.historyA ELSE t.historyB
        p       == probe_extend(history)
        asked   == log_event(t.events, t.log_current_turn, "GM", actor,
                             "probe question", question)
        kept    == IF player = "a"
                   THEN [t EXCEPT !.historyA = p.history]
                   ELSE [t EXCEPT !.historyB = p.history]
    IN  IF raised
        THEN [twin_raise(kept) EXCEPT !.events = asked]
        ELSE [kept EXCEPT !.events = log_event(asked, t.log_current_turn, "GM",
                                               "GM", "probe response", reply),
                          !.pc = next_pc]

\* Grounding.play, lines 96-105
twin_finalize(t) ==
    LET e1 == IF t.complete_turns = t.n_turns
              THEN log_event(t.events, t.log_current_turn, "GM", "GM", "info",
                             "game successful")
              ELSE t.events
    IN  [t EXCEPT !.events = log_event(e1, t.log_current_turn, "GM", "GM", "info",
                                       "end game"),
                  !.eval_keys = log_key(@, "Played turns", t.current_turn),
                  !.pc = "done"]

\* The first episode has just been left by a raising backend call.
Raised == pc' = "aborted"

\* The largest turn budget of the pair of episodes.
MaxTwinTurns == 2

Twin_Setup ==
    /\ Setup
    /\ n_turns' <= MaxTwinTurns
    /\ twin.pc = "constructed"
    /\ twin' = twin_setup(twin, n_turns')

Twin_NextTurn ==
    /\ Play_NextTurn
    /\ twin.pc = "play" /\ twin_proceed(twin)
    /\ twin' = twin_next_turn(twin)

Twin_GetA ==
    /\ Turn_GetA
    /\ twin.pc = "turn_get_a"
    /\ twin' = IF Raised THEN twin_raise(twin)
               ELSE twin_get_utterance(twin, "a", "Player 1", answer',
                                       "turn_relay_a")

Twin_RelayA ==
    /\ Turn_RelayA
    /\ twin.pc = "turn_relay_a"
    /\ twin' = twin_relay(twin, "b", "Player 2", "turn_get_b")

Twin_GetB ==
    /\ Turn_GetB
    /\ twin.pc = "turn_get_b"
    /\ twin' = IF Raised THEN twin_raise(twin)
               ELSE twin_get_utterance(twin, "b", "Player 2", answer',
                                       "turn_relay_b")

Twin_RelayB ==
    /\ Turn_RelayB
    /\ twin.pc = "turn_relay_b"
    /\ twin' = twin_relay(twin, "a", "Player 1", "turn_complete")

Twin_Complete ==
    /\ Turn_Complete
    /\ twin.pc = "turn_complete"
    /\ twin' = twin_complete(twin)

Twin_ProbeA ==
    /\ Probe_A
    /\ twin.pc = "probe_a"
    /\ \E reply \in Replies("A", TurnMethod) :
         twin' = twin_probe(twin, "a", "Player 1", reply, Raised, "probe_b")

Twin_ProbeB ==
    /\ Probe_B
    /\ twin.pc = "probe_b"
    /\ \E reply \in Replies("B", TurnMethod) :
         twin' = twin_probe(twin, "b", "Player 2", reply, Raised, "play")

Twin_Finalize ==
    /\ Play_Finalize
    /\ twin.pc = "play" /\ ~twin_proceed(twin)
    /\ twin' = twin_finalize(twin)

TwinNext ==
    \/ Twin_Setup
    \/ Twin_NextTurn
    \/ Twin_GetA
    \/ Twin_RelayA
    \/ Twin_GetB
    \/ Twin_RelayB
    \/ Twin_Complete
    \/ Twin_ProbeA
    \/ Twin_ProbeB
    \/ Twin_Finalize

----------------------------------------------------------------------------

\* Two episodes of one instance, step by step beside each other.
TwinSpec == Init /\ [][TwinNext]_pair

----------------------------------------------------------------------------
(* Vocabulary of the properties.                                           *)

Roles(history) == [i \in 1 .. Len(history) |-> history[i].role]

CountRole(history, role) ==
    Cardinality({i \in 1 .. Len(history) : history[i].role = role})

\* No two consecutive messages of history[from ..] carry the same role.
AlternatesFrom(history, from) ==
    \A i \in from .. (Len(history) - 1) : history[i].role # history[i + 1].role

CountInfo(content) ==
    Cardinality({i \in 1 .. Len(events) :
                   events[i].type = "info" /\ events[i].content = content})

\* play() ran to its last statement.
Completed == pc = "done"

\* Positions at which no turn is under way: a turn has just been completed
\* (and is being probed), or the loop or the whole of play() is over.
AfterCompletedTurn ==
    /\ pc \in {"probe_a", "probe_b", "play", "done"}
    /\ complete_turns >= 1

----------------------------------------------------------------------------
\* C1: for every turn budget N >= 1, an episode that ran setup and then play
\* to completion has current_turn = N and complete_turns = N, and each of the
\* two histories holds exactly 1 + 2N messages: N "assistant" messages (own
\* replies) and 1 + N "user" messages (the initial prompt and N relayed
\* replies of the peer).
C1_CompletedEpisodeCounts ==
    (Completed /\ n_turns >= 1) =>
        /\ current_turn = n_turns
        /\ complete_turns = n_turns
        /\ Len(historyA) = 1 + 2 * n_turns
        /\ Len(historyB) = 1 + 2 * n_turns
        /\ CountRole(historyA, "assistant") = n_turns
        /\ CountRole(historyB, "assistant") = n_turns
        /\ CountRole(historyA, "user") = 1 + n_turns
        /\ CountRole(historyB, "user") = 1 + n_turns

C1_Witness == Completed /\ n_turns = 3 /\ Len(historyB) = 7

\* C2 as stated: after every completed turn, and in the final state of a
\* completed episode, both histories start with a "user" message and no two
\* consecutive messages of either history carry the same role.
C2_BothHistoriesAlternate ==
    AfterCompletedTurn =>
        /\ historyA[1].role = "user"
        /\ historyB[1].role = "user"
        /\ AlternatesFrom(historyA, 1)
        /\ AlternatesFrom(historyB, 1)

\* C2 amended: after every completed turn, and in the final state of a
\* completed episode, both histories start with a "user" message; player A's
\* history alternates strictly; player B's history holds two "user" messages
\* in a row at its start (its initial prompt and the relayed first reply of
\* A) and alternates strictly from its second message on.
C2_AlternationAmended ==
    AfterCompletedTurn =>
        /\ historyA[1].role = "user"
        /\ historyB[1].role = "user"
        /\ AlternatesFrom(historyA, 1)
        /\ historyB[2].role = "user"
        /\ AlternatesFrom(historyB, 2)

C2_Witness ==
    /\ AfterCompletedTurn
    /\ complete_turns = 2
    /\ Roles(historyB) = <<"user", "user", "assistant", "user", "assistant">>
    /\ Roles(historyA) = <<"user", "assistant", "user", "assistant", "user">>

\* C3: for every turn budget N >= 1, from the end of setup on request_counts
\* has the N + 1 indices 0 .. N, index 0 holds 0 in every state, and after a
\* completed episode each index 1 .. N holds exactly 2.
C3_RequestCounts ==
    (pc # "constructed" /\ n_turns >= 1) =>
        /\ DOMAIN request_counts = 0 .. n_turns
        /\ request_counts[0] = 0
        /\ Completed => \A i \in 1 .. n_turns : request_counts[i] = 2

C3_Witness ==
    /\ Completed
    /\ n_turns = 3
    /\ request_counts[1] = 2 /\ request_counts[2] = 2 /\ request_counts[3] = 2

\* C4: a step of probe() leaves both histories as they were, message for
\* message, whether the backend answers the probe or raises.
C4_ProbeKeepsHistories ==
    [][(pc \in {"probe_a", "probe_b"})
         => (historyA' = historyA /\ historyB' = historyB)]_vars

\* Both halves of a probe have run and been answered after a full turn.
C4_Witness ==
    /\ pc = "play"
    /\ complete_turns = 1
    /\ Len(events) >= 2
    /\ events[Len(events)].type = "probe response"
    /\ events[Len(events) - 1].to = "Player 2"
    /\ Len(historyA) = 3 /\ Len(historyB) = 3

\* C5: when play() has run its tail, the key "Played turns" holds the value
\* of current_turn, and the info event "game successful" is in the log if and
\* only if complete_turns = n_turns.
C5_Finalisation ==
    Completed =>
        /\ "Played turns" \in DOMAIN eval_keys
        /\ eval_keys["Played turns"] = current_turn
        /\ (CountInfo("game successful") >= 1) <=> (complete_turns = n_turns)

C5_Witness ==
    /\ Completed
    /\ n_turns = 2
    /\ eval_keys["Played turns"] = 2
    /\ CountInfo("game successful") = 1

\* The other side of C5: a run of play() whose counters differ logs no success.
C5_WitnessNoSuccess ==
    /\ Completed
    /\ complete_turns # n_turns
    /\ CountInfo("game successful") = 0

\* C6: in the log of every completed episode (turn budget N >= 1) the info
\* event "game successful" occurs exactly once, the info event "end game"
\* occurs exactly once, and "end game" is the last event of the log.
C6_EndMarkers ==
    (Completed /\ n_turns >= 1) =>
        /\ CountInfo("game successful") = 1
        /\ CountInfo("end game") = 1
        /\ events[Len(events)].type = "info"
        /\ events[Len(events)].content = "end game"

C6_Witness ==
    /\ Completed
    /\ n_turns = 3
    /\ Len(events) = 28
    /\ events[27].content = "game successful"
    /\ events[28].content = "end game"

\* C7 as stated: setup fails when called with n_turns < 1, so that no episode
\* leaves setup with such a budget, and none is played to an "end game" or
\* "game successful" event.
C7_SetupRejectsBudgetBelowOne ==
    /\ (pc # "constructed") => (n_turns >= 1)
    /\ (n_turns < 1) =>
          (CountInfo("end game") = 0 /\ CountInfo("game successful") = 0)

\* C7, the part about the zero-turn episode alone: no episode with
\* n_turns = 0 is played to a "game successful" event.
C7_NoZeroTurnSuccess ==
    (pc # "constructed" /\ n_turns = 0) => CountInfo("game successful") = 0

\* C8 as stated: when a backend invocation raises during turn k, the episode
\* ends with complete_turns = k - 1, without a "game successful" event, with
\* the "end game" event logged and with an error-tagged event in the log.
C8_FaultInTurn ==
    (pc = "aborted" /\ failed_at \in {"turn_get_a", "turn_get_b"}) =>
        /\ complete_turns = current_turn - 1
        /\ CountInfo("game successful") = 0
        /\ CountInfo("end game") = 1
        /\ \E i \in 1 .. Len(events) : events[i].type = "error"

\* What the code does keep of C8: the turns before the fault are complete and
\* no success is logged.
C8_FaultKeepsEarlierTurns ==
    (pc = "aborted" /\ failed_at \in {"turn_get_a", "turn_get_b"}) =>
        /\ complete_turns = current_turn - 1
        /\ CountInfo("game successful") = 0

----------------------------------------------------------------------------
\* The events of one turn of the log, in order, without the info events of
\* the tail of play().
TurnEvents(t) == SelectSeq(events, LAMBDA e : e.turn = t /\ e.type # "info")

\* What a full turn and its probe log: <<from, to, type>>.
TurnPattern ==
    << <<"Player 1", "GM", "get message">>,
       <<"GM", "Player 2", "send message">>,
       <<"Player 2", "GM", "get message">>,
       <<"GM", "Player 1", "send message">>,
       <<"GM", "Player 1", "probe question">>,
       <<"GM", "GM", "probe response">>,
       <<"GM", "Player 2", "probe question">>,
       <<"GM", "GM", "probe response">> >>

Step(k, n) == IF k >= n THEN 1 ELSE 0

\* C9: the steps of a turn happen in one fixed order.  With k the number of
\* events logged so far in turn t: the events are the first k of the pattern
\* A's get-message, send-message to B, B's get-message, send-message to A,
\* probe question/response of A, probe question/response of B; A's reply is in
\* A's history from k = 1, its relay in B's from k = 2, B's reply in B's from
\* k = 3, its relay in A's from k = 4, each with the content of its event;
\* complete_turns counts the turn only once k = 4 is reached and before any
\* probe event; and no event of turn t + 1 precedes the eighth event of turn t.
C9_StepOrder ==
    (pc # "constructed") =>
        /\ \A i \in 1 .. (Len(events) - 1) : events[i].turn <= events[i + 1].turn
        /\ \A t \in 1 .. current_turn :
             LET es == TurnEvents(t)
                 k  == Len(es)
             IN  /\ k <= 8
                 /\ \A i \in 1 .. k :
                      <<es[i].from, es[i].to, es[i].type>> = TurnPattern[i]
                 /\ (t < current_turn) => (k = 8)
                 /\ (t = current_turn) =>
                      /\ Len(historyA) = 2 * t - 1 + Step(k, 1) + Step(k, 4)
                      /\ Len(historyB) = 2 * t - 1 + Step(k, 2) + Step(k, 3)
                      /\ (k <= 3) => (complete_turns = t - 1)
                      /\ (k = 4) => (complete_turns \in {t - 1, t})
                      /\ (k >= 5) => (complete_turns = t)
                 /\ (k >= 1) => historyA[2 * t] = Message("assistant", es[1].content)
                 /\ (k >= 2) => /\ historyB[2 * t] = Message("user", es[2].content)
                                /\ es[2].content = es[1].content
                 /\ (k >= 3) => historyB[2 * t + 1] = Message("assistant", es[3].content)
                 /\ (k >= 4) => /\ historyA[2 * t + 1] = Message("user", es[4].content)
                                /\ es[4].content = es[3].content
                 /\ (k >= 5) => es[5].content = question
                 /\ (k >= 7) => es[7].content = question

\* Turn 2 is in the middle of its probe, after a full turn 1.
C9_Witness ==
    /\ pc = "probe_b"
    /\ current_turn = 2
    /\ Len(TurnEvents(1)) = 8
    /\ Len(TurnEvents(2)) = 6
    /\ complete_turns = 2

----------------------------------------------------------------------------
AssistantPositions(history) ==
    {i \in 1 .. Len(history) : history[i].role = "assistant"}

\* The position of the k-th "assistant" message of a history: the own reply
\* of turn k.
NthAssistant(history, k) ==
    CHOOSE i \in AssistantPositions(history) :
        Cardinality({j \in AssistantPositions(history) : j <= i}) = k

UserPositions(history) ==
    {i \in 1 .. Len(history) : history[i].role = "user"}

\* The position of the k-th "user" message of a history, 0 when there is none.
NthUser(history, k) ==
    IF Cardinality(UserPositions(history)) < k THEN 0
    ELSE CHOOSE i \in UserPositions(history) :
             Cardinality({j \in UserPositions(history) : j <= i}) = k

\* The positions of the "user" messages of a history that hold this content.
RelayedPositions(history, content) ==
    {i \in 1 .. Len(history) : history[i] = Message("user", content)}

\* C10: for every turn t in which A has replied, B's history holds at most
\* one relayed copy of that reply; the copy is there once the turn is
\* completed and whenever B has given its own reply of turn t; and it stands
\* strictly after B's own reply of turn t - 1 (when t > 1) and strictly before
\* B's own reply of turn t.
C10_RelayCausalOrder ==
    \A t \in 1 .. CountRole(historyA, "assistant") :
        LET reply  == historyA[NthAssistant(historyA, t)].content
            copies == RelayedPositions(historyB, reply)
            ownB   == CountRole(historyB, "assistant")
        IN  /\ Cardinality(copies) <= 1
            /\ (ownB >= t \/ complete_turns >= t) => (copies # {})
            /\ \A i \in copies :
                 /\ (t > 1) => /\ ownB >= t - 1
                               /\ NthAssistant(historyB, t - 1) < i
                 /\ (ownB >= t) => (i < NthAssistant(historyB, t))

\* B has replied in turn 2: A's second reply stands between B's two replies.
C10_Witness ==
    /\ CountRole(historyB, "assistant") = 2
    /\ CountRole(historyA, "assistant") = 2
    /\ RelayedPositions(historyB, historyA[4].content) = {4}
    /\ NthAssistant(historyB, 1) = 3
    /\ NthAssistant(historyB, 2) = 5

----------------------------------------------------------------------------
\* C11: in every state from the end of setup to the end of play, also in the
\* middle of a turn or of a probe and after a fault, current_turn <= n_turns
\* and complete_turns <= current_turn (turn budget N >= 1).
C11_CounterBounds ==
    (pc # "constructed" /\ n_turns >= 1) =>
        /\ current_turn <= n_turns
        /\ complete_turns <= current_turn

\* The last turn is being probed: both bounds are met with equality.
C11_Witness ==
    /\ pc = "probe_b"
    /\ n_turns = 3
    /\ current_turn = n_turns
    /\ complete_turns = current_turn

\* The cycle of turn i (its turn and its probe) has run in full.
CycleDone(i) ==
    /\ i >= 1
    /\ \/ i < current_turn
       \/ i = current_turn /\ pc \in {"play", "done"}

\* C12 as stated: after each full turn+probe cycle i, request_counts[i] is
\* the number of all backend invocations, for turn replies and for probe
\* answers, made while current_turn = i.
C12_CountsAllInvocations ==
    \A i \in DOMAIN request_counts :
        CycleDone(i) =>
            request_counts[i] = backend_calls[i].turn + backend_calls[i].probe

\* C12 amended: after each full turn+probe cycle i, request_counts[i] is the
\* number of backend invocations for turn replies made while current_turn = i,
\* which is 2; the 2 invocations for probe answers made in the same cycle are
\* not counted.
C12_CountsTurnInvocations ==
    \A i \in DOMAIN request_counts :
        CycleDone(i) =>
            /\ request_counts[i] = backend_calls[i].turn
            /\ request_counts[i] = 2
            /\ backend_calls[i].probe = 2

C12_Witness ==
    /\ pc = "play"
    /\ current_turn = 2
    /\ request_counts[2] = 2
    /\ backend_calls[2] = [turn |-> 2, probe |-> 2]

----------------------------------------------------------------------------
\* A reply that holds "FAILED." is in a history or in the log.
FailedReply(player, turn) == _custom_response(player, ToString(turn), TRUE, 1, 1)

\* C13: play terminates (it reaches its end, unless a backend call raises and
\* ends it at once); the loop is left exactly when current_turn = n_turns, so
\* a completed episode (turn budget N >= 1) has run N full turn+probe cycles,
\* whatever the replies were: a "FAILED." reply does not end the loop.
C13_Termination ==
    /\ <>(pc \in {"done", "aborted"})
    /\ [][(pc = "play" /\ n_turns >= 1)
            => ((pc' = "done") <=> (current_turn = n_turns))]_vars
    /\ []((Completed /\ n_turns >= 1) =>
            /\ current_turn = n_turns
            /\ \A i \in 1 .. n_turns : CycleDone(i) /\ Len(TurnEvents(i)) = 8)

\* A completed three-turn episode in which both players failed in turn 1:
\* the replies were appended, relayed and logged, and all turns were played.
C13_Witness ==
    /\ Completed
    /\ n_turns = 3
    /\ complete_turns = 3
    /\ historyA[2] = Message("assistant", FailedReply("A", 1))
    /\ historyB[2] = Message("user", FailedReply("A", 1))
    /\ historyB[3] = Message("assistant", FailedReply("B", 1))
    /\ historyA[3] = Message("user", FailedReply("B", 1))
    /\ TurnEvents(1)[1].content = FailedReply("A", 1)
    /\ TurnEvents(1)[3].content = FailedReply("B", 1)

----------------------------------------------------------------------------
ProbeFault == failed_at \in {"probe_a", "probe_b"}

\* C15 as stated: when the backend raises while answering the probe of one
\* player in turn t, turn t stays completed (complete_turns and the lengths of
\* both histories keep their values after the turn), nothing of the probe is
\* in that player's history, and the run is not aborted by it: the other
\* player's probe and the remaining turns still take place.
C15_ProbeFaultIsolated ==
    ProbeFault =>
        /\ complete_turns = current_turn
        /\ Len(historyA) = 1 + 2 * current_turn
        /\ Len(historyB) = 1 + 2 * current_turn
        /\ \A i \in 1 .. Len(historyA) : historyA[i].content # question
        /\ \A i \in 1 .. Len(historyB) : historyB[i].content # question
        /\ pc # "aborted"

\* What the code does keep of C15: the turn stays completed and the probe
\* leaves nothing in either history.
C15_ProbeFaultKeepsTurn ==
    ProbeFault =>
        /\ complete_turns = current_turn
        /\ Len(historyA) = 1 + 2 * current_turn
        /\ Len(historyB) = 1 + 2 * current_turn
        /\ \A i \in 1 .. Len(historyA) : historyA[i].content # question
        /\ \A i \in 1 .. Len(historyB) : historyB[i].content # question

----------------------------------------------------------------------------
IsPrefix(s, t) == Len(s) <= Len(t) /\ SubSeq(t, 1, Len(s)) = s

\* C16: every step of an episode, a step in which a backend call raises
\* included, leaves the log before the step as a prefix of the log after it,
\* and leaves every evaluation key written before the step with its value.
C16_LogAppendOnly ==
    [][/\ IsPrefix(events, events')
       /\ \A k \in DOMAIN eval_keys :
            k \in DOMAIN eval_keys' /\ eval_keys'[k] = eval_keys[k]]_vars

\* A backend call raised in turn 2: the log of setup and of turn 1 and the
\* key "n_turns" are still there.
C16_Witness ==
    /\ pc = "aborted"
    /\ failed_at = "turn_get_b"
    /\ current_turn = 2
    /\ Len(events) = 12
    /\ Len(TurnEvents(1)) = 8
    /\ eval_keys["n_turns"] = n_turns

----------------------------------------------------------------------------
\* The state in which setup has returned and play has not started.
AfterSetup == pc = "play" /\ log_current_turn = 0

\* C17: immediately after setup with turn budget N (N >= 1): current_turn = 0,
\* complete_turns = 0, request_counts is N + 1 zeros, each history holds
\* exactly the player's own initial prompt as a "user" message, the log holds
\* exactly the send-message events GM->Player 1 and GM->Player 2 with these
\* prompts, in this order, the key "n_turns" is N, and no backend has been
\* invoked.
C17_AfterSetup ==
    (AfterSetup /\ n_turns >= 1) =>
        /\ current_turn = 0
        /\ complete_turns = 0
        /\ DOMAIN request_counts = 0 .. n_turns
        /\ \A i \in 0 .. n_turns : request_counts[i] = 0
        /\ historyA = <<Message("user", prompt_player_a)>>
        /\ historyB = <<Message("user", prompt_player_b)>>
        /\ Len(events) = 2
        /\ events[1] = Event(0, "GM", "Player 1", "send message", prompt_player_a)
        /\ events[2] = Event(0, "GM", "Player 2", "send message", prompt_player_b)
        /\ eval_keys["n_turns"] = n_turns
        /\ last_request = NoRequest
        /\ \A i \in DOMAIN backend_calls :
             backend_calls[i] = [turn |-> 0, probe |-> 0]

C17_Witness == AfterSetup /\ n_turns = 3 /\ Len(events) = 2

----------------------------------------------------------------------------
Last(seq) == seq[Len(seq)]

\* C18: every backend request shows the player its own dialogue.  A request
\* for a turn reply presents exactly the history of the asked player as it is
\* at that moment, ending in a "user" message: for A its initial prompt (turn
\* 1) or B's reply of the previous turn, for B the relayed reply A gave in the
\* same turn.  A probe request presents exactly the history of the probed
\* player followed by one "user" message with the probe question; A is probed
\* before B.  No other step makes a backend request.
C18_RequestViews ==
    [][/\ (pc = "turn_get_a") =>
            /\ last_request'.player = "a" /\ last_request'.kind = "turn"
            /\ last_request'.messages = historyA
            /\ Last(historyA).role = "user"
            /\ Last(historyA).content =
                   IF current_turn = 1 THEN prompt_player_a
                   ELSE Last(historyB).content
            /\ (current_turn > 1) => (Last(historyB).role = "assistant")
       /\ (pc = "turn_get_b") =>
            /\ last_request'.player = "b" /\ last_request'.kind = "turn"
            /\ last_request'.messages = historyB
            /\ Last(historyB).role = "user"
            /\ Last(historyB).content = Last(historyA).content
            /\ Last(historyA).role = "assistant"
       /\ (pc = "probe_a") =>
            /\ last_request'.player = "a" /\ last_request'.kind = "probe"
            /\ last_request'.messages = Append(historyA, Message("user", question))
            /\ backend_calls[current_turn].probe = 0
       /\ (pc = "probe_b") =>
            /\ last_request'.player = "b" /\ last_request'.kind = "probe"
            /\ last_request'.messages = Append(historyB, Message("user", question))
            /\ backend_calls[current_turn].probe = 1
       /\ (pc \notin {"turn_get_a", "turn_get_b", "probe_a", "probe_b"}) =>
            /\ last_request' = last_request
            /\ (pc # "constructed") => (backend_calls' = backend_calls)]_vars

\* B has been asked for its reply of turn 2 with its four messages so far.
C18_Witness ==
    /\ pc = "turn_relay_b"
    /\ current_turn = 2
    /\ last_request.player = "b"
    /\ last_request.kind = "turn"
    /\ Len(last_request.messages) = 4
    /\ Len(historyB) = 5

\* C19: after every completed turn the histories mirror each other apart
\* from the initial prompts.  For every turn t <= complete_turns the t-th
\* "assistant" message of A has the content of the t-th relayed "user" message
\* of B (the one after B's prompt being the first), and the t-th "assistant"
\* message of B has the content of the t-th relayed "user" message of A; each
\* reply stands as a "user" message exactly once in the other player's
\* history and never in the history of the player who gave it.
C19_Mirror ==
    \A t \in 1 .. complete_turns :
        LET replyA == historyA[NthAssistant(historyA, t)].content
            replyB == historyB[NthAssistant(historyB, t)].content
        IN  /\ CountRole(historyA, "assistant") >= t
            /\ CountRole(historyB, "assistant") >= t
            /\ NthUser(historyB, t + 1) \in RelayedPositions(historyB, replyA)
            /\ NthUser(historyA, t + 1) \in RelayedPositions(historyA, replyB)
            /\ Cardinality(RelayedPositions(historyB, replyA)) = 1
            /\ Cardinality(RelayedPositions(historyA, replyB)) = 1
            /\ RelayedPositions(historyA, replyA) = {}
            /\ RelayedPositions(historyB, replyB) = {}

C19_Witness ==
    /\ complete_turns = 2
    /\ pc = "probe_a"
    /\ historyB[4].content = historyA[4].content
    /\ historyA[5].content = historyB[5].content
    /\ historyA[4].role = "assistant" /\ historyB[4].role = "user"
    /\ historyB[5].role = "assistant" /\ historyA[5].role = "user"

----------------------------------------------------------------------------
\* A log with the contents of its probe-response events blanked.
WithoutProbeAnswers(log) ==
    [i \in 1 .. Len(log) |->
        IF log[i].type = "probe response"
        THEN [log[i] EXCEPT !.content = ""]
        ELSE log[i]]

\* C14: two episodes of the same instance whose backends give the same turn
\* replies (and raise at the same requests) but any probe answers are, at
\* every step, at the same position with identical histories of A and of B,
\* identical current_turn, complete_turns and request_counts, identical
\* evaluation keys, and identical logs once the contents of the
\* probe-response events are ignored.
C14_ProbeNonInterference ==
    /\ twin.pc = pc
    /\ twin.failed_at = failed_at
    /\ twin.n_turns = n_turns
    /\ twin.historyA = historyA
    /\ twin.historyB = historyB
    /\ twin.current_turn = current_turn
    /\ twin.complete_turns = complete_turns
    /\ twin.request_counts = request_counts
    /\ twin.eval_keys = eval_keys
    /\ twin.answer = answer
    /\ WithoutProbeAnswers(twin.events) = WithoutProbeAnswers(events)

\* Two completed two-turn episodes whose probes of turn 1 were answered
\* differently for both players.
C14_Witness ==
    /\ Completed
    /\ n_turns = 2
    /\ Len(events) = 20
    /\ events[8].type = "probe response"
    /\ events[8].content # twin.events[8].content
    /\ events[10].content # twin.events[10].content

====
